---- MODULE Spec2Model ----
(***************************************************************************)
(* Model of the lexical scanner of TallerLexico: Lexer.tokenize of         *)
(* src/lexer_taller.py and of src/lexer,0,0.py.                            *)
(*                                                                         *)
(* A text is a sequence of characters, a character is a one-character      *)
(* string.  Offsets are 0-based as in Python: text[p] is text[p + 1] here. *)
(* The two implementations scan the same text side by side, one loop       *)
(* iteration of each per step.                                             *)
(***************************************************************************)
EXTENDS Integers, Sequences, FiniteSets, TLC

(***************************************************************************)
(* Bounds of the model.                                                    *)
(***************************************************************************)
\* longest enumerated input text
MaxLen == 3
\* longest whitespace run inserted at a token boundary
MaxInsert == 1

(***************************************************************************)
(* Character classes of the master pattern.                                *)
(***************************************************************************)
\* \s of a str pattern: the ASCII members that can be written here; Python
\* also matches \v, \x1c-\x1f and the other Unicode whitespace characters
WhitespaceChars == {" ", "\t", "\n", "\r", "\f"}

\* [a-z]
LowercaseChars ==
    {"a", "b", "c", "d", "e", "f", "g", "h", "i", "j", "k", "l", "m",
     "n", "o", "p", "q", "r", "s", "t", "u", "v", "w", "x", "y", "z"}

\* [0-9]
DigitChars == {"0", "1", "2", "3", "4", "5", "6", "7", "8", "9"}

\* [+\-*/=]
OperatorChars == {"+", "-", "*", "/", "="}

\* [();]
DelimiterChars == {"(", ")", ";"}

\* faulty variant of the master pattern: whitespace is [ \t\n]+ instead of \s+
master_pattern_ListedWhitespace ==
    << [group |-> "WHITESPACE", class |-> {" ", "\t", "\n"}, plus |-> TRUE],
       [group |-> "IDENTIFIER", class |-> LowercaseChars, plus |-> TRUE],
       [group |-> "INTEGER",    class |-> DigitChars,      plus |-> TRUE],
       [group |-> "OPERATOR",   class |-> OperatorChars,   plus |-> FALSE],
       [group |-> "DELIMITER",  class |-> DelimiterChars,  plus |-> FALSE] >>

\* faulty variant of the master pattern: whitespace is [ \t]+, without newline
master_pattern_NoNewline ==
    << [group |-> "WHITESPACE", class |-> {" ", "\t"}, plus |-> TRUE],
       [group |-> "IDENTIFIER", class |-> LowercaseChars, plus |-> TRUE],
       [group |-> "INTEGER",    class |-> DigitChars,      plus |-> TRUE],
       [group |-> "OPERATOR",   class |-> OperatorChars,   plus |-> FALSE],
       [group |-> "DELIMITER",  class |-> DelimiterChars,  plus |-> FALSE] >>

\* faulty variant of the master pattern: identifiers are [a-z0-9]+
master_pattern_AlnumIdentifier ==
    << [group |-> "WHITESPACE", class |-> WhitespaceChars, plus |-> TRUE],
       [group |-> "IDENTIFIER", class |-> LowercaseChars \cup DigitChars, plus |-> TRUE],
       [group |-> "INTEGER",    class |-> DigitChars,      plus |-> TRUE],
       [group |-> "OPERATOR",   class |-> OperatorChars,   plus |-> FALSE],
       [group |-> "DELIMITER",  class |-> DelimiterChars,  plus |-> FALSE] >>

\* faulty variant of the master pattern: identifiers are [a-z], the + is missing
master_pattern_SingleLetter ==
    << [group |-> "WHITESPACE", class |-> WhitespaceChars, plus |-> TRUE],
       [group |-> "IDENTIFIER", class |-> LowercaseChars, plus |-> FALSE],
       [group |-> "INTEGER",    class |-> DigitChars,      plus |-> TRUE],
       [group |-> "OPERATOR",   class |-> OperatorChars,   plus |-> FALSE],
       [group |-> "DELIMITER",  class |-> DelimiterChars,  plus |-> FALSE] >>

\* self.master_pattern of lexer_taller.py: the named alternatives in their
\* declared order; plus is TRUE for a class followed by +
master_pattern ==
    << [group |-> "WHITESPACE", class |-> WhitespaceChars, plus |-> TRUE],
       [group |-> "IDENTIFIER", class |-> LowercaseChars,  plus |-> TRUE],
       [group |-> "INTEGER",    class |-> DigitChars,      plus |-> TRUE],
       [group |-> "OPERATOR",   class |-> OperatorChars,   plus |-> FALSE],
       [group |-> "DELIMITER",  class |-> DelimiterChars,  plus |-> FALSE] >>

\* self.master_pattern of lexer,0,0.py
master_pattern0 ==
    << [group |-> "WHITESPACE", class |-> WhitespaceChars, plus |-> TRUE],
       [group |-> "IDENTIFIER", class |-> LowercaseChars,  plus |-> TRUE],
       [group |-> "INTEGER",    class |-> DigitChars,      plus |-> TRUE],
       [group |-> "OPERATOR",   class |-> OperatorChars,   plus |-> FALSE],
       [group |-> "DELIMITER",  class |-> DelimiterChars,  plus |-> FALSE] >>

\* self.keywords of lexer_taller.py
keywords == { <<"i", "f">>, <<"e", "l", "s", "e">>, <<"w", "h", "i", "l", "e">> }

\* self.keywords of lexer,0,0.py
keywords0 == { <<"i", "f">>, <<"e", "l", "s", "e">>, <<"w", "h", "i", "l", "e">> }

(***************************************************************************)
(* re: anchored matching of an alternation of character-class rules.       *)
(***************************************************************************)
\* number of consecutive characters of class from offset p on
RECURSIVE RunLength(_, _, _)
RunLength(text, p, class) ==
    IF p < Len(text) /\ text[p + 1] \in class
    THEN 1 + RunLength(text, p + 1, class)
    ELSE 0

\* length matched by one alternative anchored at offset p; 0 when it does not
\* match (class+ is greedy and takes the whole run, class takes one character)
AlternativeLength(rule, text, p) ==
    IF rule.plus
    THEN RunLength(text, p, rule.class)
    ELSE IF p < Len(text) /\ text[p + 1] \in rule.class THEN 1 ELSE 0

\* the alternatives of pattern from the i-th on, tried in declared order at
\* offset p: the first one that matches wins
RECURSIVE FirstMatch(_, _, _, _)
FirstMatch(pattern, text, p, i) ==
    IF i > Len(pattern)
    THEN [found |-> FALSE, lastgroup |-> "None", end |-> p]
    ELSE IF AlternativeLength(pattern[i], text, p) > 0
    THEN [found |-> TRUE, lastgroup |-> pattern[i].group,
          end |-> p + AlternativeLength(pattern[i], text, p)]
    ELSE FirstMatch(pattern, text, p, i + 1)

\* pattern.match(text, p); found is FALSE for None, end is match.end() and
\* lastgroup the name of the group that matched
Match(pattern, text, p) == FirstMatch(pattern, text, p, 1)

\* text[a:b]
Slice(text, a, b) == SubSeq(text, a + 1, b)

\* lexeme.count("\n")
RECURSIVE Count(_, _)
Count(lexeme, c) ==
    IF lexeme = <<>> THEN 0
    ELSE (IF Head(lexeme) = c THEN 1 ELSE 0) + Count(Tail(lexeme), c)

\* lexeme.rfind("\n"): 0-based index of the last occurrence, -1 if none
RFind(lexeme, c) ==
    IF \E i \in 1..Len(lexeme) : lexeme[i] = c
    THEN (CHOOSE i \in 1..Len(lexeme) :
             lexeme[i] = c /\ \A j \in (i + 1)..Len(lexeme) : lexeme[j] # c) - 1
    ELSE -1


(***************************************************************************)
(* Lexer of lexer_taller.py.                                               *)
(***************************************************************************)
\* faulty variant of _advance_position: the column keeps growing across a
\* newline instead of restarting
advance_position_NoColumnReset(lexeme, ln, cl) ==
    <<ln + Count(lexeme, "\n"), cl + Len(lexeme)>>

\* faulty variant of _advance_position: the newline itself is counted among
\* the characters after the last newline
advance_position_OffByOne(lexeme, ln, cl) ==
    LET newlines == Count(lexeme, "\n")
    IN  IF newlines = 0
        THEN <<ln, cl + Len(lexeme)>>
        ELSE LET last_newline_index == RFind(lexeme, "\n")
                 chars_after_last_newline == Len(lexeme) - last_newline_index
             IN  <<ln + newlines, 1 + chars_after_last_newline>>

\* Lexer._advance_position: (line, col) after consuming lexeme
advance_position(lexeme, ln, cl) ==
    LET newlines == Count(lexeme, "\n")
    IN  IF newlines = 0
        THEN <<ln, cl + Len(lexeme)>>
        ELSE LET last_newline_index == RFind(lexeme, "\n")
                 chars_after_last_newline == Len(lexeme) - last_newline_index - 1
             IN  <<ln + newlines, 1 + chars_after_last_newline>>

\* faulty variant of the if/elif chain: a lexeme that starts with a reserved
\* word (lexeme.startswith) is taken for the reserved word
token_type_StartsWith(kind, lexeme) ==
    IF kind = "IDENTIFIER"
    THEN (IF \E kw \in keywords :
                Len(kw) <= Len(lexeme) /\ SubSeq(lexeme, 1, Len(kw)) = kw
          THEN "KEYWORD" ELSE "IDENTIFIER")
    ELSE IF kind = "INTEGER" THEN "INTEGER"
    ELSE IF kind = "OPERATOR" THEN "OPERATOR"
    ELSE IF kind = "DELIMITER" THEN "DELIMITER"
    ELSE "RuntimeError"

\* the if/elif chain of tokenize that names the token type of a group
token_type(kind, lexeme) ==
    IF kind = "IDENTIFIER"
    THEN (IF lexeme \in keywords THEN "KEYWORD" ELSE "IDENTIFIER")
    ELSE IF kind = "INTEGER" THEN "INTEGER"
    ELSE IF kind = "OPERATOR" THEN "OPERATOR"
    ELSE IF kind = "DELIMITER" THEN "DELIMITER"
    ELSE "RuntimeError"

\* Token(type, lexeme, line, col)
Token(type, lexeme, ln, cl) ==
    [type |-> type, lexeme |-> lexeme, line |-> ln, col |-> cl]

\* the exception a call ends with: ValueError carries the character, line and
\* column of its message, RuntimeError carries none of them
Raise(exc, bad_char, ln, cl) ==
    [exc |-> exc, bad_char |-> bad_char, line |-> ln, col |-> cl]

\* the locals of a tokenize call at its entry; raised and returned hold at
\* most one element, the exception or the value the call ended with
Entry ==
    [pos |-> 0, line |-> 1, col |-> 1, tokens |-> <<>>, pc |-> "loop",
     raised |-> <<>>, returned |-> <<>>]

\* faulty variant of the loop body: after a whitespace match the cursor moves
\* by one character (pos += 1) instead of to match.end()
LoopIteration_SkipOneChar(txt, s) ==
    IF ~(s.pos < Len(txt))
    THEN [s EXCEPT !.pc = "returned", !.returned = <<s.tokens>>]
    ELSE
    LET match == Match(master_pattern, txt, s.pos)
    IN  IF ~match.found
        THEN [s EXCEPT !.pc = "raised",
                       !.raised = <<Raise("ValueError", txt[s.pos + 1], s.line, s.col)>>]
        ELSE
        LET kind == match.lastgroup
            lexeme == Slice(txt, s.pos, match.end)
            start_line == s.line
            start_col == s.col
            advanced == advance_position(lexeme, s.line, s.col)
        IN  IF kind = "WHITESPACE"
            THEN [s EXCEPT !.line = advanced[1], !.col = advanced[2],
                           !.pos = s.pos + 1]
            ELSE IF token_type(kind, lexeme) = "RuntimeError"
            THEN [s EXCEPT !.line = advanced[1], !.col = advanced[2],
                           !.pc = "raised",
                           !.raised = <<Raise("RuntimeError", "", 0, 0)>>]
            ELSE [s EXCEPT !.line = advanced[1], !.col = advanced[2],
                           !.tokens = Append(s.tokens,
                               Token(token_type(kind, lexeme), lexeme,
                                     start_line, start_col)),
                           !.pos = match.end]

\* faulty variant of the loop body: the whitespace branch continues without
\* moving the cursor
LoopIteration_SkipNoChar(txt, s) ==
    IF ~(s.pos < Len(txt))
    THEN [s EXCEPT !.pc = "returned", !.returned = <<s.tokens>>]
    ELSE
    LET match == Match(master_pattern, txt, s.pos)
    IN  IF ~match.found
        THEN [s EXCEPT !.pc = "raised",
                       !.raised = <<Raise("ValueError", txt[s.pos + 1], s.line, s.col)>>]
        ELSE
        LET kind == match.lastgroup
            lexeme == Slice(txt, s.pos, match.end)
            start_line == s.line
            start_col == s.col
            advanced == advance_position(lexeme, s.line, s.col)
        IN  IF kind = "WHITESPACE"
            THEN [s EXCEPT !.line = advanced[1], !.col = advanced[2]]
            ELSE IF token_type(kind, lexeme) = "RuntimeError"
            THEN [s EXCEPT !.line = advanced[1], !.col = advanced[2],
                           !.pc = "raised",
                           !.raised = <<Raise("RuntimeError", "", 0, 0)>>]
            ELSE [s EXCEPT !.line = advanced[1], !.col = advanced[2],
                           !.tokens = Append(s.tokens,
                               Token(token_type(kind, lexeme), lexeme,
                                     start_line, start_col)),
                           !.pos = match.end]

\* one evaluation of the while condition of tokenize and, when it holds, one
\* execution of the loop body; s holds the locals of the call
LoopIteration(txt, s) ==
    IF ~(s.pos < Len(txt))
    THEN [s EXCEPT !.pc = "returned", !.returned = <<s.tokens>>]
    ELSE
    LET match == Match(master_pattern, txt, s.pos)
    IN  IF ~match.found
        THEN [s EXCEPT !.pc = "raised",
                       !.raised = <<Raise("ValueError", txt[s.pos + 1], s.line, s.col)>>]
        ELSE
        LET kind == match.lastgroup
            lexeme == Slice(txt, s.pos, match.end)
            start_line == s.line
            start_col == s.col
            advanced == advance_position(lexeme, s.line, s.col)
        IN  IF kind = "WHITESPACE"
            THEN [s EXCEPT !.line = advanced[1], !.col = advanced[2],
                           !.pos = match.end]
            ELSE IF token_type(kind, lexeme) = "RuntimeError"
            THEN [s EXCEPT !.line = advanced[1], !.col = advanced[2],
                           !.pc = "raised",
                           !.raised = <<Raise("RuntimeError", "", 0, 0)>>]
            ELSE [s EXCEPT !.line = advanced[1], !.col = advanced[2],
                           !.tokens = Append(s.tokens,
                               Token(token_type(kind, lexeme), lexeme,
                                     start_line, start_col)),
                           !.pos = match.end]

\* the while loop of tokenize from the locals s to the end of the call; fuel
\* bounds the iterations and a call that uses it up is still at pc "loop"
RECURSIVE RunLoop(_, _, _)
RunLoop(txt, s, fuel) ==
    IF s.pc # "loop" \/ fuel = 0 THEN s
    ELSE RunLoop(txt, LoopIteration(txt, s), fuel - 1)

\* Lexer.tokenize(txt) as a function of its argument
tokenize(txt) == RunLoop(txt, Entry, Len(txt) + 1)

(***************************************************************************)
(* Lexer of lexer,0,0.py.                                                  *)
(***************************************************************************)
\* faulty variant of _advance_position of lexer,0,0.py: columns are counted
\* from 0 after a newline
advance_position0_ZeroBased(lexeme, ln, cl) ==
    LET newlines == Count(lexeme, "\n")
    IN  IF newlines = 0
        THEN <<ln, cl + Len(lexeme)>>
        ELSE LET last_newline_index == RFind(lexeme, "\n")
                 chars_after_last_newline == Len(lexeme) - last_newline_index - 1
             IN  <<ln + newlines, chars_after_last_newline>>

\* Lexer._advance_position
advance_position0(lexeme, ln, cl) ==
    LET newlines == Count(lexeme, "\n")
    IN  IF newlines = 0
        THEN <<ln, cl + Len(lexeme)>>
        ELSE LET last_newline_index == RFind(lexeme, "\n")
                 chars_after_last_newline == Len(lexeme) - last_newline_index - 1
             IN  <<ln + newlines, 1 + chars_after_last_newline>>

\* the if/elif chain of tokenize
token_type0(kind, lexeme) ==
    IF kind = "IDENTIFIER"
    THEN (IF lexeme \in keywords0 THEN "KEYWORD" ELSE "IDENTIFIER")
    ELSE IF kind = "INTEGER" THEN "INTEGER"
    ELSE IF kind = "OPERATOR" THEN "OPERATOR"
    ELSE IF kind = "DELIMITER" THEN "DELIMITER"
    ELSE "RuntimeError"

\* one evaluation of the while condition and one execution of the loop body;
\* this file also raises RuntimeError when match.lastgroup is None
LoopIteration0(txt, s) ==
    IF ~(s.pos < Len(txt))
    THEN [s EXCEPT !.pc = "returned", !.returned = <<s.tokens>>]
    ELSE
    LET match == Match(master_pattern0, txt, s.pos)
    IN  IF ~match.found
        THEN [s EXCEPT !.pc = "raised",
                       !.raised = <<Raise("ValueError", txt[s.pos + 1], s.line, s.col)>>]
        ELSE
        LET kind == match.lastgroup
        IN  IF kind = "None"
            THEN [s EXCEPT !.pc = "raised",
                           !.raised = <<Raise("RuntimeError", "", 0, 0)>>]
            ELSE
            LET lexeme == Slice(txt, s.pos, match.end)
                start_line == s.line
                start_col == s.col
                advanced == advance_position0(lexeme, s.line, s.col)
            IN  IF kind = "WHITESPACE"
                THEN [s EXCEPT !.line = advanced[1], !.col = advanced[2],
                               !.pos = match.end]
                ELSE IF token_type0(kind, lexeme) = "RuntimeError"
                THEN [s EXCEPT !.line = advanced[1], !.col = advanced[2],
                               !.pc = "raised",
                               !.raised = <<Raise("RuntimeError", "", 0, 0)>>]
                ELSE [s EXCEPT !.line = advanced[1], !.col = advanced[2],
                               !.tokens = Append(s.tokens,
                                   Token(token_type0(kind, lexeme), lexeme,
                                         start_line, start_col)),
                               !.pos = match.end]

(***************************************************************************)
(* Input texts.                                                            *)
(***************************************************************************)
\* the characters of the enumerated texts: listed whitespace, a whitespace
\* character of \s that is neither space, tab nor newline, two letters that
\* spell a reserved word, a digit, an operator, a delimiter and a character
\* of no category
Alphabet == {" ", "\n", "\r", "i", "f", "1", "=", ";", "A"}

\* DEMO_SOURCE, "if (x = 10) x = x + 1;"
DEMO_SOURCE ==
    <<"i", "f", " ", "(", "x", " ", "=", " ", "1", "0", ")", " ", "x", " ",
      "=", " ", "x", " ", "+", " ", "1", ";">>

\* "x\n  y"
TextMultiLine == <<"x", "\n", " ", " ", "y">>

\* "x = A;"
TextInvalid == <<"x", " ", "=", " ", "A", ";">>

\* longer texts scanned besides the enumerated ones
SampleTexts ==
    { DEMO_SOURCE, TextMultiLine, TextInvalid,
      <<"i", "f", "x">>,
      <<"e", "l", "s", "e">>,
      <<"w", "h", "i", "l", "e">>,
      <<"w", "h", "i", "l", "e", "s">>,
      <<"x", "1">>,
      <<"1", "0", "x">>,
      <<"w", "h", "i", "l", "e", "\t", "(", "a", "-", "7", ")", "\f", "\n", "e", "l", "s", "e", "*", "/", "Z">> }

\* every text over Alphabet of at most MaxLen characters, and the samples
Texts == UNION {[1..n -> Alphabet] : n \in 0..MaxLen} \cup SampleTexts

(***************************************************************************)
(* State.                                                                  *)
(***************************************************************************)
VARIABLES
    text,       \* the argument of both calls
    pos, line, col, tokens,     \* locals of tokenize, lexer_taller.py
    pc,         \* "idle", "loop", "returned" or "raised"
    raised,     \* <<exception>> once the call has raised
    returned,   \* <<token list>> once the call has returned
    iters,      \* executions of the loop body so far
    spans,      \* history: lastgroup, start() and end() of every match so far
    pos0, line0, col0, tokens0, \* locals of tokenize, lexer,0,0.py
    pc0, raised0, returned0

vars == <<text, pos, line, col, tokens, pc, raised, returned, iters, spans,
          pos0, line0, col0, tokens0, pc0, raised0, returned0>>

\* the locals of the call of lexer_taller.py
Locals ==
    [pos |-> pos, line |-> line, col |-> col, tokens |-> tokens, pc |-> pc,
     raised |-> raised, returned |-> returned]

\* the locals of the call of lexer,0,0.py
Locals0 ==
    [pos |-> pos0, line |-> line0, col |-> col0, tokens |-> tokens0,
     pc |-> pc0, raised |-> raised0, returned |-> returned0]

SetLocals(s) ==
    /\ pos' = s.pos
    /\ line' = s.line
    /\ col' = s.col
    /\ tokens' = s.tokens
    /\ pc' = s.pc
    /\ raised' = s.raised
    /\ returned' = s.returned

SetLocals0(s) ==
    /\ pos0' = s.pos
    /\ line0' = s.line
    /\ col0' = s.col
    /\ tokens0' = s.tokens
    /\ pc0' = s.pc
    /\ raised0' = s.raised
    /\ returned0' = s.returned

\* the Lexer objects are constructed and tokenize has not been called
Init ==
    /\ text = <<>>
    /\ pos = 0 /\ line = 1 /\ col = 1 /\ tokens = <<>>
    /\ pc = "idle" /\ raised = <<>> /\ returned = <<>>
    /\ iters = 0 /\ spans = <<>>
    /\ pos0 = 0 /\ line0 = 1 /\ col0 = 1 /\ tokens0 = <<>>
    /\ pc0 = "idle" /\ raised0 = <<>> /\ returned0 = <<>>

\* lexer.tokenize(txt) is called on both Lexer objects: tokens = [], pos = 0,
\* line = 1, col = 1
Call ==
    /\ pc = "idle"
    /\ \E txt \in Texts : text' = txt
    /\ SetLocals(Entry)
    /\ SetLocals0(Entry)
    /\ UNCHANGED <<iters, spans>>

\* the call of lexer,0,0.py takes the same step of its own loop
Iterate0 ==
    \E after \in {IF pc0 = "loop" THEN LoopIteration0(text, Locals0)
                           ELSE Locals0} :
       SetLocals0(after)

\* the span the master pattern matches at the cursor
CurrentMatch == Match(master_pattern, text, pos)

\* while pos < len(text) is false: return tokens
Return ==
    /\ pc = "loop"
    /\ ~(pos < Len(text))
    /\ \E after \in {LoopIteration(text, Locals)} : SetLocals(after)
    /\ UNCHANGED <<text, iters, spans>>
    /\ Iterate0

\* if not match: raise ValueError
LexicalError ==
    /\ pc = "loop"
    /\ pos < Len(text)
    /\ ~CurrentMatch.found
    /\ \E after \in {LoopIteration(text, Locals)} : SetLocals(after)
    /\ iters' = iters + 1
    /\ UNCHANGED <<text, spans>>
    /\ Iterate0

\* if kind == "WHITESPACE": pos = match.end(); continue
SkipWhitespace ==
    /\ pc = "loop"
    /\ pos < Len(text)
    /\ CurrentMatch.found
    /\ CurrentMatch.lastgroup = "WHITESPACE"
    /\ \E after \in {LoopIteration(text, Locals)} : SetLocals(after)
    /\ iters' = iters + 1
    /\ spans' = Append(spans, [group |-> CurrentMatch.lastgroup,
                               start |-> pos, end |-> CurrentMatch.end])
    /\ UNCHANGED text
    /\ Iterate0

\* tokens.append(Token(...)); pos = match.end()
EmitToken ==
    /\ pc = "loop"
    /\ pos < Len(text)
    /\ CurrentMatch.found
    /\ CurrentMatch.lastgroup # "WHITESPACE"
    /\ \E after \in {LoopIteration(text, Locals)} : SetLocals(after)
    /\ iters' = iters + 1
    /\ spans' = Append(spans, [group |-> CurrentMatch.lastgroup,
                               start |-> pos, end |-> CurrentMatch.end])
    /\ UNCHANGED text
    /\ Iterate0

\* a step of the loop of the call
Loop == Return \/ LexicalError \/ SkipWhitespace \/ EmitToken

Next == Call \/ Return \/ LexicalError \/ SkipWhitespace \/ EmitToken

Spec == Init /\ [][Next]_vars

\* the interpreter runs the call to its end
FairSpec == Spec /\ WF_vars(Loop)


(***************************************************************************)
(* Vocabulary of the properties.                                           *)
(***************************************************************************)
Finished == pc \in {"returned", "raised"}

\* 1 + number of newline characters in txt[0..p)
LineAt(txt, p) == 1 + Cardinality({i \in 1..p : txt[i] = "\n"})

\* 1 + number of characters between the last newline before offset p (or the
\* start of txt) and p
ColAt(txt, p) ==
    LET nl == {i \in 1..p : txt[i] = "\n"}
        last == IF nl = {} THEN 0 ELSE CHOOSE i \in nl : \A j \in nl : j <= i
    IN  1 + (p - last)

\* the matches that produced a token, in order
TokenSpans == SelectSeq(spans, LAMBDA sp : sp.group # "WHITESPACE")

\* the lexeme of the k-th match: the token's lexeme for an emitted span, the
\* skipped characters for a whitespace span
SpanText(k) ==
    IF spans[k].group = "WHITESPACE"
    THEN SubSeq(text, spans[k].start + 1, spans[k].end)
    ELSE tokens[Len(SelectSeq(SubSeq(spans, 1, k),
                              LAMBDA sp : sp.group # "WHITESPACE"))].lexeme

\* concatenation of the lexemes of the first k matches
RECURSIVE Concatenation(_)
Concatenation(k) ==
    IF k = 0 THEN <<>> ELSE Concatenation(k - 1) \o SpanText(k)

\* the (type, lexeme) pairs of a token sequence
TypesAndLexemes(toks) ==
    [k \in 1..Len(toks) |-> <<toks[k].type, toks[k].lexeme>>]


(***************************************************************************)
(* C1: every token records the position of the first character of its      *)
(* lexeme.  The k-th token is the lexeme text[p..p+n) of the k-th          *)
(* token-producing match, which started at offset p, and its line is 1 +   *)
(* the newlines of text[0..p) and its col is 1 + the characters between    *)
(* the last newline before p (or the start of the text) and p; a           *)
(* successful call returns these tokens.  "x\n  y" yields Identifier x at  *)
(* (1,1) and Identifier y at (2,3).                                        *)
(***************************************************************************)
C1_TokenPositions ==
    /\ Len(tokens) = Len(TokenSpans)
    /\ \A k \in 1..Len(tokens) :
          LET p == TokenSpans[k].start
          IN  /\ tokens[k].lexeme # <<>>
              /\ tokens[k].lexeme = SubSeq(text, p + 1, p + Len(tokens[k].lexeme))
              /\ tokens[k].line = LineAt(text, p)
              /\ tokens[k].col = ColAt(text, p)
    /\ pc = "returned" => returned = <<tokens>>
    /\ (pc = "returned" /\ text = TextMultiLine) =>
          returned[1] = << Token("IDENTIFIER", <<"x">>, 1, 1),
                           Token("IDENTIFIER", <<"y">>, 2, 3) >>
    /\ text = TextMultiLine => pc # "raised"

\* "x\n  y" has been tokenized and its second token lies on line 2
C1_Witness ==
    /\ pc = "returned"
    /\ text = TextMultiLine
    /\ Len(returned[1]) = 2
    /\ returned[1][2].line = 2
    /\ returned[1][2].col = 3

(***************************************************************************)
(* C2: at a cursor where no rule matches the call raises the lexical error *)
(* and nothing else happens afterwards: no token sequence is returned, and *)
(* the error carries the character at the cursor with its 1-based line     *)
(* (1 + newlines before it) and column (1 + characters since the last      *)
(* newline), whatever whitespace was skipped before.  "x = A;" reports     *)
(* 'A', line 1, column 5.                                                  *)
(***************************************************************************)
NoRuleMatchesAt(p) ==
    /\ p < Len(text)
    /\ \A i \in 1..Len(master_pattern) : text[p + 1] \notin master_pattern[i].class

C2_ErrorReport ==
    /\ pc = "raised" =>
          /\ returned = <<>>
          /\ NoRuleMatchesAt(pos)
          /\ raised = <<Raise("ValueError", text[pos + 1],
                              LineAt(text, pos), ColAt(text, pos))>>
    /\ pc # "raised" => raised = <<>>
    /\ (text = TextInvalid /\ Finished) =>
          /\ pc = "raised"
          /\ raised = <<Raise("ValueError", "A", 1, 5)>>

C2_RaisedOnce ==
    /\ (pc = "loop" /\ NoRuleMatchesAt(pos)) => pc' = "raised"
    /\ pc # "raised"

C2_LexicalError == [](C2_ErrorReport) /\ [][C2_RaisedOnce]_vars

\* an error raised on a later line, after whitespace was skipped on it
C2_Witness ==
    /\ pc = "raised"
    /\ raised[1].line = 2
    /\ raised[1].col = 2
    /\ pos >= 2
    /\ text[pos] \in WhitespaceChars


(***************************************************************************)
(* C3 as stated: the call returns exactly when every character is a space, *)
(* a tab, a newline, a lowercase letter, a digit, an operator or a         *)
(* delimiter; any other character, a carriage return or form feed          *)
(* included, ends the call with the lexical error at the first such        *)
(* character, and the whitespace rule never consumes it.                   *)
(***************************************************************************)
ListedChars ==
    {" ", "\t", "\n"} \cup LowercaseChars \cup DigitChars
        \cup OperatorChars \cup DelimiterChars

\* offset of the first character of txt outside S, Len(txt) if there is none
FirstOutside(txt, S) ==
    IF \A i \in 1..Len(txt) : txt[i] \in S
    THEN Len(txt)
    ELSE (CHOOSE i \in 1..Len(txt) :
             txt[i] \notin S /\ \A j \in 1..(i - 1) : txt[j] \in S) - 1

\* the call ends as the character set S decides
AcceptsExactly(S) ==
    /\ pos <= FirstOutside(text, S)
    /\ pc = "returned" => /\ FirstOutside(text, S) = Len(text)
                          /\ returned = <<tokens>>
    /\ pc = "raised" => /\ pos = FirstOutside(text, S)
                        /\ pos < Len(text)
                        /\ returned = <<>>
                        /\ raised[1].exc = "ValueError"
                        /\ raised[1].bad_char = text[pos + 1]
    /\ \A k \in 1..Len(spans) :
          spans[k].group = "WHITESPACE" =>
             \A i \in (spans[k].start + 1)..spans[k].end :
                text[i] \in S \ (LowercaseChars \cup DigitChars
                                   \cup OperatorChars \cup DelimiterChars)

C3_Original == AcceptsExactly(ListedChars)

(***************************************************************************)
(* C3 amended: the whitespace of the rule set is the class \s, so carriage *)
(* return and form feed (and the other characters of \s) are skipped like  *)
(* space, tab and newline.  The call returns exactly when every character  *)
(* is in \s, a lowercase letter, a digit, an operator or a delimiter; any  *)
(* other character ends it with the lexical error at the first such        *)
(* character.                                                              *)
(***************************************************************************)
AmendedChars == ListedChars \cup {"\r", "\f"}

C3_Amended == AcceptsExactly(AmendedChars)

\* a carriage return was skipped as whitespace and the call went on to fail
\* at a later character of no category
C3_Witness ==
    /\ pc = "raised"
    /\ pos >= 1
    /\ text[1] = "\r"
    /\ text[pos + 1] = "A"
    /\ spans # <<>>
    /\ spans[1].group = "WHITESPACE"

(***************************************************************************)
(* C4 as stated: a text in which a digit run is immediately adjacent to a  *)
(* letter run never yields tokens; the call ends with the lexical error.   *)
(***************************************************************************)
\* a digit and a lowercase letter are neighbours at offsets p - 1 and p
LetterDigitBoundary(txt, p) ==
    /\ 1 <= p /\ p < Len(txt)
    /\ \/ txt[p] \in DigitChars /\ txt[p + 1] \in LowercaseChars
       \/ txt[p] \in LowercaseChars /\ txt[p + 1] \in DigitChars

C4_Original ==
    (\E p \in 1..Len(text) : LetterDigitBoundary(text, p)) =>
        /\ pc # "returned"
        /\ Finished => pc = "raised"

(***************************************************************************)
(* C4 amended: a digit run immediately adjacent to a letter run is not an  *)
(* error.  The scan splits the text at the boundary into an INTEGER token  *)
(* for the digit run and an IDENTIFIER or KEYWORD token for the letter     *)
(* run, and the call fails only at a character that belongs to no          *)
(* category.  "x1" yields Identifier x, Integer 1 and "10x" yields Integer *)
(* 10, Identifier x.                                                       *)
(***************************************************************************)
C4_Amended ==
    /\ \A p \in 1..Len(text) :
          (LetterDigitBoundary(text, p) /\ p < pos) =>
             \E k \in 1..(Len(TokenSpans) - 1) :
                /\ TokenSpans[k].end = p
                /\ TokenSpans[k + 1].start = p
                /\ {tokens[k].type, tokens[k + 1].type}
                      \in {{"INTEGER", "IDENTIFIER"}, {"INTEGER", "KEYWORD"}}
                /\ tokens[k].type = "INTEGER" <=> text[p] \in DigitChars
    /\ pc = "raised" => text[pos + 1] \notin LowercaseChars \cup DigitChars
    /\ (text = <<"x", "1">> /\ Finished) =>
          returned = << << Token("IDENTIFIER", <<"x">>, 1, 1),
                           Token("INTEGER", <<"1">>, 1, 2) >> >>
    /\ (text = <<"1", "0", "x">> /\ Finished) =>
          returned = << << Token("INTEGER", <<"1", "0">>, 1, 1),
                           Token("IDENTIFIER", <<"x">>, 1, 3) >> >>

\* a text with a digit next to a reserved word has been tokenized into both
C4_Witness ==
    /\ pc = "returned"
    /\ Len(tokens) = 2
    /\ tokens[1].type = "INTEGER"
    /\ tokens[2].type = "KEYWORD"
    /\ LetterDigitBoundary(text, TokenSpans[1].end)

(***************************************************************************)
(* C5: a non-empty text of lowercase letters only yields exactly one       *)
(* token, whose lexeme is the whole text: a KEYWORD if the text is if,     *)
(* else or while, an IDENTIFIER otherwise.  "ifx" and "whiles" are single  *)
(* identifiers.                                                            *)
(***************************************************************************)
ReservedWords ==
    { <<"i", "f">>, <<"e", "l", "s", "e">>, <<"w", "h", "i", "l", "e">> }

C5_LowercaseRun ==
    (text # <<>> /\ \A i \in 1..Len(text) : text[i] \in LowercaseChars) =>
        /\ pc # "raised"
        /\ Len(tokens) <= 1
        /\ \A k \in 1..Len(tokens) :
              /\ tokens[k].lexeme = text
              /\ tokens[k].type =
                    IF text \in ReservedWords THEN "KEYWORD" ELSE "IDENTIFIER"
        /\ pc = "returned" => Len(returned[1]) = 1 /\ returned[1] = tokens

\* "whiles" came back as one identifier
C5_Witness ==
    /\ pc = "returned"
    /\ text = <<"w", "h", "i", "l", "e", "s">>
    /\ returned[1] = <<Token("IDENTIFIER", text, 1, 1)>>


(***************************************************************************)
(* C6: the matched spans partition the consumed text.  After each loop     *)
(* iteration the spans follow one another from offset 0 to pos, and the    *)
(* concatenation, in order, of the emitted lexemes and the skipped         *)
(* whitespace spans is text[0..pos); at return it is the whole text.       *)
(***************************************************************************)
C6_Partition ==
    /\ Len(tokens) = Len(TokenSpans)
    /\ \A k \in 1..Len(spans) :
          /\ spans[k].start = (IF k = 1 THEN 0 ELSE spans[k - 1].end)
          /\ spans[k].start < spans[k].end
    /\ (spans # <<>>) => spans[Len(spans)].end = pos
    /\ (spans = <<>>) => pos = 0
    /\ Concatenation(Len(spans)) = SubSeq(text, 1, pos)
    /\ pc = "returned" => /\ Concatenation(Len(spans)) = text
                          /\ returned = <<tokens>>

\* a text with tokens and whitespace on two lines was consumed to its end
C6_Witness ==
    /\ pc = "returned"
    /\ Len(spans) >= 3
    /\ Len(tokens) >= 2
    /\ Len(tokens) < Len(spans)
    /\ line >= 2

(***************************************************************************)
(* C7: whitespace at token boundaries is invisible.  When the call         *)
(* returns, the call on any text obtained by inserting a run of spaces,    *)
(* tabs or newlines at an offset that is not inside a lexeme returns too,  *)
(* with the same (type, lexeme) pairs, and with the same tokens before the *)
(* insertion point.                                                        *)
(***************************************************************************)
\* the runs of 1..MaxInsert spaces, tabs and newlines
InsertedRuns == UNION {[1..n -> {" ", "\t", "\n"}] : n \in 1..MaxInsert}

\* the offsets of text that are not strictly inside a lexeme
TokenBoundaries ==
    {b \in 0..Len(text) :
        \A k \in 1..Len(TokenSpans) :
           ~(TokenSpans[k].start < b /\ b < TokenSpans[k].end)}

\* txt with run inserted at offset b
InsertAt(txt, b, run) ==
    SubSeq(txt, 1, b) \o run \o SubSeq(txt, b + 1, Len(txt))

\* number of tokens that end at or before offset b
TokensBefore(b) ==
    Cardinality({k \in 1..Len(TokenSpans) : TokenSpans[k].end <= b})

C7_WhitespaceInvisible ==
    pc = "returned" =>
       \A b \in TokenBoundaries : \A run \in InsertedRuns :
          LET other == tokenize(InsertAt(text, b, run))
          IN  /\ other.pc = "returned"
              /\ TypesAndLexemes(other.returned[1]) = TypesAndLexemes(returned[1])
              /\ \A k \in 1..TokensBefore(b) :
                    other.returned[1][k] = returned[1][k]

\* two tokens with no whitespace between them were returned, so that there is
\* a boundary at which whitespace can be inserted between them
C7_Witness ==
    /\ pc = "returned"
    /\ Len(returned[1]) >= 2
    /\ \E k \in 1..(Len(TokenSpans) - 1) :
          /\ TokenSpans[k].end = TokenSpans[k + 1].start
          /\ TokenSpans[k].end \in TokenBoundaries

(***************************************************************************)
(* C8: the selected match is the longest non-empty prefix that any rule    *)
(* matches at the cursor.  At most one rule matches at a cursor; every     *)
(* consumed span is maximal: no lowercase letter follows an identifier     *)
(* lexeme, no digit follows an integer lexeme, no whitespace follows a     *)
(* skipped span; operator and delimiter lexemes have length 1.             *)
(***************************************************************************)
\* rule matches the n characters from offset p on
RuleMatchesPrefix(rule, p, n) ==
    /\ n >= 1
    /\ p + n <= Len(text)
    /\ \A i \in (p + 1)..(p + n) : text[i] \in rule.class
    /\ rule.plus \/ n = 1

\* length of the longest prefix at p that some rule matches, 0 if none does
LongestPrefix(p) ==
    LET lengths == {n \in 0..(Len(text) - p) :
                       n = 0 \/ \E i \in 1..Len(master_pattern) :
                                   RuleMatchesPrefix(master_pattern[i], p, n)}
    IN  CHOOSE n \in lengths : \A m \in lengths : m <= n

C8_LongestMatch ==
    /\ (pc = "loop" /\ pos < Len(text)) =>
          /\ Cardinality({i \in 1..Len(master_pattern) :
                \E n \in 1..(Len(text) - pos) :
                    RuleMatchesPrefix(master_pattern[i], pos, n)}) <= 1
          /\ CurrentMatch.end - pos = LongestPrefix(pos)
          /\ CurrentMatch.found <=> LongestPrefix(pos) > 0
    /\ \A k \in 1..Len(spans) :
          /\ spans[k].end - spans[k].start = LongestPrefix(spans[k].start)
          /\ (spans[k].group = "IDENTIFIER" /\ spans[k].end < Len(text)) =>
                text[spans[k].end + 1] \notin LowercaseChars
          /\ (spans[k].group = "INTEGER" /\ spans[k].end < Len(text)) =>
                text[spans[k].end + 1] \notin DigitChars
          /\ (spans[k].group = "WHITESPACE" /\ spans[k].end < Len(text)) =>
                text[spans[k].end + 1] \notin WhitespaceChars
          /\ spans[k].group \in {"OPERATOR", "DELIMITER"} =>
                spans[k].end - spans[k].start = 1
    /\ \A k \in 1..Len(tokens) :
          tokens[k].type \in {"OPERATOR", "DELIMITER"} => Len(tokens[k].lexeme) = 1

\* an identifier of several letters, a one-character operator and an integer
\* of several digits were matched
C8_Witness ==
    /\ \E k \in 1..Len(tokens) :
          tokens[k].type \in {"IDENTIFIER", "KEYWORD"} /\ Len(tokens[k].lexeme) >= 2
    /\ \E k \in 1..Len(tokens) :
          tokens[k].type = "INTEGER" /\ Len(tokens[k].lexeme) >= 2
    /\ \E k \in 1..Len(tokens) : tokens[k].type = "OPERATOR"
    /\ \E k \in 1..Len(spans) : spans[k].group = "WHITESPACE"

(***************************************************************************)
(* C9: the call terminates.  Each loop iteration raises the lexical error  *)
(* or moves pos forward to the end of a non-empty match, pos never passes  *)
(* len(text), the loop body runs at most len(text) times, and the call     *)
(* ends: with pos = len(text) and the accumulated tokens, or with the      *)
(* error.                                                                  *)
(***************************************************************************)
C9_Bounded ==
    /\ 0 <= pos /\ pos <= Len(text)
    /\ iters <= Len(text)
    /\ pc = "returned" => pos = Len(text) /\ returned = <<tokens>>
    /\ pc = "raised" => pos < Len(text) /\ raised # <<>>

C9_Progress ==
    (pc = "loop" /\ pos < Len(text)) =>
        \/ pc' = "raised" /\ pos' = pos
        \/ pc' = "loop" /\ pos' > pos /\ pos' = CurrentMatch.end
                        /\ pos' <= Len(text)

C9_Terminates ==
    /\ [](C9_Bounded)
    /\ [][C9_Progress]_vars
    /\ (pc = "loop") ~> Finished

\* a call that needed one iteration for every character of a longer text
C9_Witness ==
    /\ pc = "returned"
    /\ iters = Len(text)
    /\ iters >= 3

(***************************************************************************)
(* C10: the two implementations are observationally equivalent.  After     *)
(* every loop iteration they hold the same pos, line, col and tokens, and  *)
(* they end alike: both return the same tokens or both raise the lexical   *)
(* error with the same character, line and column.                         *)
(***************************************************************************)
C10_Equivalent ==
    /\ pos0 = pos /\ line0 = line /\ col0 = col /\ tokens0 = tokens
    /\ pc0 = pc
    /\ returned0 = returned
    /\ raised0 = raised

\* both calls have raised after emitting tokens on more than one line
C10_Witness ==
    /\ pc = "raised" /\ pc0 = "raised"
    /\ raised0 # <<>>
    /\ raised0[1].exc = "ValueError"
    /\ Len(tokens0) >= 2
    /\ line0 >= 2

====
